---- MODULE Spec2Model ----
(***************************************************************************)
(* Deferrable sensors and triggers of astronomer-providers:                *)
(*   - HttpTrigger            (astronomer/providers/http/triggers/http.py) *)
(*   - S3KeySensorAsync       (astronomer/providers/amazon/aws/sensors/    *)
(*                             s3.py)                                      *)
(* Each component is a state machine of its own (HttpSpec, KeySpec); the   *)
(* variables of the other component stay at their initial value.           *)
(***************************************************************************)
EXTENDS Integers, Sequences, FiniteSets, TLC

VARIABLES
    orig,       \* the HttpTrigger as the task constructed it
    trig,       \* the HttpTrigger instance whose run() the triggerer drives
    restored,   \* TRUE once trig was rebuilt from orig's serialized form
    hook,       \* the HttpHookAsync obtained by run()
    hpc,        \* position of the run() coroutine
    trace,      \* what run() did so far: requests, responses, sleeps, events
    kargs,      \* the bucket_key argument the S3KeySensorAsync was constructed with
    sensor,     \* the S3KeySensorAsync task object (its attributes)
    kpc,        \* position of the task in the deferral protocol
    pokes,      \* number of calls of poke() made by execute()
    checks,     \* number of evaluations of check_fn
    deferCalls, \* arguments of every call of defer(), oldest first
    raised,     \* the exception that ended the last handler, or NoException
    lastEvent,  \* the event handed to the last execute_complete()
    lastPoke,   \* what the poke() of execute() did
    newDefers,  \* the defer() calls made by the last handler alone
    newChecks,  \* the evaluations of check_fn made by the last handler alone
    krun,       \* the run of the S3KeyTrigger registered by the last defer()
    usensor,    \* the S3KeysUnchangedSensorAsync task object (its attributes)
    upc,        \* position of that task in the deferral protocol
    upokes,     \* what each call of poke() made by its execute() did
    udefers,    \* arguments of every call of defer() it made, oldest first
    uraised,    \* the exception that ended its last handler, or NoException
    uevent,     \* the event handed to its last execute_complete()
    urun,       \* the run of the S3KeysUnchangedTrigger it registered
    bop,        \* the asynchronous BigQuery operator (its attributes)
    bpc,        \* position of that task in the deferral protocol
    benv,       \* what the BigQuery hook answered to its execute()
    bcalls,     \* the calls its execute() made, oldest first
    bdefers,    \* arguments of every call of defer() it made, oldest first
    braised,    \* the exception that ended its last handler, or NoBqException
    bevent      \* the event handed to its last execute_complete()

httpVars == <<orig, trig, restored, hook, hpc, trace>>
keyVars == <<kargs, sensor, kpc, pokes, checks, deferCalls, raised, lastEvent, lastPoke, newDefers, newChecks>>
unchVars == <<usensor, upc, upokes, udefers, uraised, uevent, urun>>
bqVars == <<bop, bpc, benv, bcalls, bdefers, braised, bevent>>
vars == <<orig, trig, restored, hook, hpc, trace,
          kargs, sensor, kpc, pokes, checks, deferCalls, raised, lastEvent, lastPoke, newDefers, newChecks,
          krun, usensor, upc, upokes, udefers, uraised, uevent, urun,
          bop, bpc, benv, bcalls, bdefers, braised, bevent>>

\* What an action of one component leaves alone.
notHttpVars == <<keyVars, krun, unchVars, bqVars>>
notKeyVars == <<httpVars, unchVars, bqVars>>
notUnchVars == <<httpVars, keyVars, krun, bqVars>>
notBqVars == <<httpVars, keyVars, krun, unchVars>>

\* ---------------------------------------------------------------- bounds

\* Requests one run() may issue before the model stops following it.
MaxRequests == 3

\* Calls of defer() one task may make before the model stops following it.
MaxDefers == 3

\* Polls one run of the S3KeyTrigger may make before the model stops following it.
MaxTicks == 3

\* ---------------------------------------------------------------- Python values

None == "None"

\* A falsy dict ({}), and a non-empty one.
EmptyDict == "{}"
SomeDict == "{k: v}"

\* Python's `x or y` on the values above.
Falsy(x) == x = None \/ x = EmptyDict
PyOr(x, y) == IF Falsy(x) THEN y ELSE x

\* str.startswith on strings held as sequences of characters.
StartsWith(s, prefix) ==
    /\ Len(s) >= Len(prefix)
    /\ SubSeq(s, 1, Len(prefix)) = prefix

\* ---------------------------------------------------------------- HttpTrigger

DefaultHttpConnId == "http_default"
DefaultMethod == "GET"
DefaultPollInterval == 5

\* HttpTrigger.__init__
HttpTrigger(endpoint, http_conn_id, method, data, headers, extra_options, poll_interval) ==
    [endpoint |-> endpoint,
     method |-> method,
     data |-> data,
     headers |-> headers,
     extra_options |-> PyOr(extra_options, EmptyDict),
     http_conn_id |-> http_conn_id,
     poll_interval |-> poll_interval]

\* HttpTrigger.serialize: the classpath and the keyword arguments.
serialize(t) ==
    <<"astronomer.providers.http.triggers.http.HttpTrigger",
      [endpoint |-> t.endpoint,
       data |-> t.data,
       headers |-> t.headers,
       extra_options |-> t.extra_options,
       http_conn_id |-> t.http_conn_id,
       poll_interval |-> t.poll_interval]>>

\* A keyword argument, or the parameter's default when the mapping lacks it.
Kwarg(kwargs, name, default) ==
    IF name \in DOMAIN kwargs THEN kwargs[name] ELSE default

\* HttpTrigger(**kwargs): the host rebuilding the trigger from serialize().
FromSerialized(ser) ==
    LET kwargs == ser[2] IN
    HttpTrigger(kwargs.endpoint,
                Kwarg(kwargs, "http_conn_id", DefaultHttpConnId),
                Kwarg(kwargs, "method", DefaultMethod),
                Kwarg(kwargs, "data", None),
                Kwarg(kwargs, "headers", None),
                Kwarg(kwargs, "extra_options", None),
                Kwarg(kwargs, "poll_interval", DefaultPollInterval))

\* HttpTrigger._get_async_hook
GetAsyncHook(t) == [method |-> t.method, http_conn_id |-> t.http_conn_id]

NoHook == [method |-> None, http_conn_id |-> None]

\* What one hook.run(...) call of run() puts on the wire.
HookRun(h, t) ==
    [method |-> h.method,
     http_conn_id |-> h.http_conn_id,
     endpoint |-> t.endpoint,
     data |-> t.data,
     headers |-> t.headers,
     extra_options |-> t.extra_options]

\* Messages of the exceptions hook.run raises ("<status>:<reason>").
Msg404 == <<"4", "0", "4", ":", "N", "F">>
Msg500 == <<"5", "0", "0", ":", "E">>
Msg40 == <<"4", "0">>
MsgNot404 == <<"x", "4", "0", "4">>
NotFoundPrefix == <<"4", "0", "4">>

AirflowExceptions ==
    {[type |-> "AirflowException", msg |-> m] : m \in {Msg404, Msg500, Msg40, MsgNot404}}
OtherExceptions ==
    {[type |-> "Exception", msg |-> m] : m \in {Msg404, Msg500}}
Returned == [type |-> "return", msg |-> <<>>]

\* Every way one awaited hook.run can end.
Outcomes == {Returned} \cup AirflowExceptions \cup OtherExceptions

\* The "not found" outcome: an AirflowException whose text starts with 404.
IsNotFound(o) == o.type = "AirflowException" /\ StartsWith(o.msg, NotFoundPrefix)

\* An except clause that lets every AirflowException but a "not found" leave
\* run().
OnException_RaisesOther(exc) ==
    IF exc.type = "AirflowException" /\ StartsWith(exc.msg, NotFoundPrefix)
    THEN "sleep"
    ELSE "propagate"

\* The except clause without its sleep: a "not found" is retried at once.
OnException_NoSleep(exc) ==
    IF exc.type = "AirflowException" THEN "loop" ELSE "propagate"

\* The except clause of run(): what the loop does with a raised exception.
OnException(exc) ==
    IF exc.type = "AirflowException"
    THEN IF StartsWith(exc.msg, NotFoundPrefix) THEN "sleep" ELSE "loop"
    ELSE "propagate"

\* Entries of trace.
Request(r) == [op |-> "request", req |-> r]
Response(o) == [op |-> "response", out |-> o]
Sleep(n) == [op |-> "sleep", secs |-> n]
Event(p) == [op |-> "event", payload |-> p]
Raise(e) == [op |-> "raise", exc |-> e]
Cancelled == [op |-> "cancel"]

\* TriggerEvent(True)
TriggerEventTrue == Event(TRUE)

Requests(tr) == {i \in 1..Len(tr) : tr[i].op = "request"}
Responses(tr) == {i \in 1..Len(tr) : tr[i].op = "response"}
Sleeps(tr) == {i \in 1..Len(tr) : tr[i].op = "sleep"}
Events(tr) == {i \in 1..Len(tr) : tr[i].op = "event"}

HttpArgs ==
    {HttpTrigger("/ep", c, m, d, h, x, p) :
        c \in {DefaultHttpConnId, "http_other"},
        m \in {DefaultMethod, "POST"},
        d \in {None, SomeDict},
        h \in {None, SomeDict},
        x \in {None, EmptyDict, SomeDict},
        p \in {DefaultPollInterval, 1}}

\* The host persists the trigger and rebuilds it from its serialized form
\* before running it.
Restore ==
    /\ hpc = "created"
    /\ ~restored
    /\ trig' = FromSerialized(serialize(trig))
    /\ restored' = TRUE
    /\ UNCHANGED <<orig, hook, hpc, trace>>
    /\ UNCHANGED notHttpVars

\* run() up to its first await: the hook is built and the first request issued.
RunStart ==
    /\ hpc = "created"
    /\ MaxRequests > 0
    /\ hook' = GetAsyncHook(trig)
    /\ trace' = <<Request(HookRun(hook', trig))>>
    /\ hpc' = "awaiting"
    /\ UNCHANGED <<orig, trig, restored>>
    /\ UNCHANGED notHttpVars

\* The awaited hook.run ends with outcome o; run() goes on to its next
\* suspension point or to its end.
HookDone(o) ==
    /\ hpc = "awaiting"
    /\ IF o.type = "return"
       THEN /\ trace' = trace \o <<Response(o), TriggerEventTrue>>
            /\ hpc' = "yielded"
       ELSE CASE OnException(o) = "sleep" ->
                    /\ trace' = trace \o <<Response(o), Sleep(trig.poll_interval)>>
                    /\ hpc' = "sleeping"
              [] OnException(o) = "loop" ->
                    /\ Cardinality(Requests(trace)) < MaxRequests
                    /\ trace' = trace \o <<Response(o), Request(HookRun(hook, trig))>>
                    /\ hpc' = "awaiting"
              [] OTHER ->
                    /\ trace' = trace \o <<Response(o), Raise(o)>>
                    /\ hpc' = "raised"
    /\ UNCHANGED <<orig, trig, restored, hook>>
    /\ UNCHANGED notHttpVars

\* asyncio.sleep(poll_interval) is over: the loop issues the next request.
SleepDone ==
    /\ hpc = "sleeping"
    /\ Cardinality(Requests(trace)) < MaxRequests
    /\ trace' = Append(trace, Request(HookRun(hook, trig)))
    /\ hpc' = "awaiting"
    /\ UNCHANGED <<orig, trig, restored, hook>>
    /\ UNCHANGED notHttpVars

\* run() without the return after its yield: the loop goes round again.
AfterYield_NoReturn ==
    /\ hpc = "yielded"
    /\ Cardinality(Requests(trace)) < MaxRequests
    /\ trace' = Append(trace, Request(HookRun(hook, trig)))
    /\ hpc' = "awaiting"
    /\ UNCHANGED <<orig, trig, restored, hook>>
    /\ UNCHANGED notHttpVars

\* The consumer asks for the item after the event: run() returns.
AfterYield ==
    /\ hpc = "yielded"
    /\ hpc' = "returned"
    /\ UNCHANGED <<orig, trig, restored, hook, trace>>
    /\ UNCHANGED notHttpVars

\* A loop whose except clause also catches the cancellation and polls on.
Cancel_Swallowed ==
    /\ hpc \in {"awaiting", "sleeping"}
    /\ Cardinality(Requests(trace)) < MaxRequests
    /\ trace' = trace \o <<Cancelled, Request(HookRun(hook, trig))>>
    /\ hpc' = "awaiting"
    /\ UNCHANGED <<orig, trig, restored, hook>>
    /\ UNCHANGED notHttpVars

\* The host cancels the coroutine at a suspension point: CancelledError is
\* no AirflowException, so it leaves run().
Cancel ==
    /\ hpc \in {"awaiting", "sleeping", "yielded"}
    /\ trace' = Append(trace, Cancelled)
    /\ hpc' = "cancelled"
    /\ UNCHANGED <<orig, trig, restored, hook>>
    /\ UNCHANGED notHttpVars

HttpNext ==
    \/ Restore
    \/ RunStart
    \/ \E o \in Outcomes : HookDone(o)
    \/ SleepDone
    \/ AfterYield
    \/ Cancel

\* ---------------------------------------------------------------- S3KeySensorAsync

\* BaseSensorOperator's default timeout, in seconds: 7 days.
DefaultTimeout == 604800
SecondsPerDay == 86400

\* datetime.timedelta(seconds=n), normalised to days and seconds.
timedelta(n) == [days |-> n \div SecondsPerDay, seconds |-> n % SecondsPerDay]

\* A bucket_key argument: one string, or a list of strings.
Str(v) == [str |-> v]
List(v) == [list |-> v]
IsStr(x) == "str" \in DOMAIN x

\* The predicates a DAG author may pass as check_fn, applied to a listing.
CheckFns == {"always_false", "always_true", "all_size_positive"}
Call(fn, files) ==
    CASE fn = "always_false" -> FALSE
      [] fn = "always_true" -> TRUE
      [] fn = "all_size_positive" -> \A i \in 1..Len(files) : files[i].Size > 0

\* The characters of the strings a bucket_key may be.
Chars(str) ==
    CASE str = "key" -> <<"k", "e", "y">>
      [] OTHER -> <<"{", "{">>

\* A constructor that turns a string into the list of its characters.
S3KeySensorAsync_SplitsString(bucket_key, bucket_name, wildcard_match, use_regex, check_fn, aws_conn_id, verify, soft_fail, poke_interval, timeout) ==
    [bucket_key |-> IF IsStr(bucket_key) THEN Chars(bucket_key.str) ELSE bucket_key.list,
     use_regex |-> use_regex,
     bucket_name |-> bucket_name,
     wildcard_match |-> wildcard_match,
     aws_conn_id |-> aws_conn_id,
     verify |-> verify,
     soft_fail |-> soft_fail,
     poke_interval |-> poke_interval,
     timeout |-> timeout,
     check_fn |-> check_fn,
     should_check_fn |-> IF check_fn # None THEN TRUE ELSE FALSE]

\* S3KeySensorAsync.__init__; soft_fail, poke_interval and timeout are the
\* keyword arguments the base sensor keeps.
S3KeySensorAsync(bucket_key, bucket_name, wildcard_match, use_regex, check_fn, aws_conn_id, verify, soft_fail, poke_interval, timeout) ==
    [bucket_key |-> IF IsStr(bucket_key) THEN <<bucket_key.str>> ELSE bucket_key.list,
     use_regex |-> use_regex,
     bucket_name |-> bucket_name,
     wildcard_match |-> wildcard_match,
     aws_conn_id |-> aws_conn_id,
     verify |-> verify,
     soft_fail |-> soft_fail,
     poke_interval |-> poke_interval,
     timeout |-> timeout,
     check_fn |-> check_fn,
     should_check_fn |-> IF check_fn # None THEN TRUE ELSE FALSE]

\* The deprecated subclass handing its check_fn on to the existence sensor.
S3KeySizeSensorAsync_Forwards(check_fn, bucket_key, bucket_name, wildcard_match, use_regex, aws_conn_id, verify, soft_fail, poke_interval, timeout) ==
    S3KeySensorAsync(bucket_key, bucket_name, wildcard_match, use_regex, check_fn, aws_conn_id, verify, soft_fail, poke_interval, timeout)
        @@ [check_fn_user |-> check_fn]

\* S3KeySizeSensorAsync.__init__: check_fn is taken out of the keyword
\* arguments, super().__init__(**kwargs) runs without it, and the argument is
\* kept in check_fn_user, an attribute nothing reads.
S3KeySizeSensorAsync(check_fn, bucket_key, bucket_name, wildcard_match, use_regex, aws_conn_id, verify, soft_fail, poke_interval, timeout) ==
    S3KeySensorAsync(bucket_key, bucket_name, wildcard_match, use_regex, None, aws_conn_id, verify, soft_fail, poke_interval, timeout)
        @@ [check_fn_user |-> check_fn]

\* A trigger given only the first of the task's keys.
S3KeyTrigger_FirstKeyOnly(s) ==
    [bucket_name |-> s.bucket_name,
     bucket_key |-> IF Len(s.bucket_key) = 0 THEN <<>> ELSE <<s.bucket_key[1]>>,
     wildcard_match |-> s.wildcard_match,
     use_regex |-> s.use_regex,
     aws_conn_id |-> s.aws_conn_id,
     verify |-> s.verify,
     poke_interval |-> s.poke_interval,
     soft_fail |-> s.soft_fail,
     should_check_fn |-> s.should_check_fn]

\* A trigger built without the matching mode: use_regex left at its default.
S3KeyTrigger_DropsRegex(s) ==
    [bucket_name |-> s.bucket_name,
     bucket_key |-> s.bucket_key,
     wildcard_match |-> s.wildcard_match,
     use_regex |-> FALSE,
     aws_conn_id |-> s.aws_conn_id,
     verify |-> s.verify,
     poke_interval |-> s.poke_interval,
     soft_fail |-> s.soft_fail,
     should_check_fn |-> s.should_check_fn]

\* A trigger built without the task's soft_fail: the flag left at its default.
S3KeyTrigger_DropsSoftFail(s) ==
    [bucket_name |-> s.bucket_name,
     bucket_key |-> s.bucket_key,
     wildcard_match |-> s.wildcard_match,
     use_regex |-> s.use_regex,
     aws_conn_id |-> s.aws_conn_id,
     verify |-> s.verify,
     poke_interval |-> s.poke_interval,
     soft_fail |-> FALSE,
     should_check_fn |-> s.should_check_fn]

\* A trigger told to hand every listing to the task, predicate or none.
S3KeyTrigger_AlwaysChecks(s) ==
    [bucket_name |-> s.bucket_name,
     bucket_key |-> s.bucket_key,
     wildcard_match |-> s.wildcard_match,
     use_regex |-> s.use_regex,
     aws_conn_id |-> s.aws_conn_id,
     verify |-> s.verify,
     poke_interval |-> s.poke_interval,
     soft_fail |-> s.soft_fail,
     should_check_fn |-> TRUE]

\* The S3KeyTrigger(...) built by _defer.
S3KeyTrigger(s) ==
    [bucket_name |-> s.bucket_name,
     bucket_key |-> s.bucket_key,
     wildcard_match |-> s.wildcard_match,
     use_regex |-> s.use_regex,
     aws_conn_id |-> s.aws_conn_id,
     verify |-> s.verify,
     poke_interval |-> s.poke_interval,
     soft_fail |-> s.soft_fail,
     should_check_fn |-> s.should_check_fn]

\* S3KeySensorAsync._defer: the arguments of its one call of defer().
DeferArgs(s) ==
    [timeout |-> timedelta(s.timeout),
     trigger |-> S3KeyTrigger(s),
     method_name |-> "execute_complete"]

\* How a handler ends: by returning, or by raising.
NoException == [type |-> "none", msg |-> ""]
TaskDeferred == [type |-> "TaskDeferred", msg |-> ""]
Exc(type, msg) == [type |-> type, msg |-> msg]

\* What poke() may do: return a boolean or raise.
PokeReturns(b) == [returns |-> b, exc |-> NoException]
PokeRaises(e) == [returns |-> FALSE, exc |-> e]
NoPoke == [returns |-> FALSE, exc |-> Exc("unset", "")]
PokeOutcomes ==
    {PokeReturns(TRUE), PokeReturns(FALSE),
     PokeRaises(Exc("Exception", "")), PokeRaises(Exc("ClientError", "403 Forbidden"))}

\* A handler's effect: the exception it ends with (NoException: it returned
\* None), the defer() calls it made, the check_fn evaluations it made.
Effect(exc, defers, evals) == [exc |-> exc, defers |-> defers, evals |-> evals]

\* execute deferring whatever the poke returned.
execute_AlwaysDefers(s, poke) ==
    IF poke.exc # NoException
    THEN IF s.soft_fail
         THEN Effect(Exc("AirflowSkipException", poke.exc.msg), <<>>, 0)
         ELSE Effect(poke.exc, <<>>, 0)
    ELSE Effect(TaskDeferred, <<DeferArgs(s)>>, 0)

\* execute re-raising the poke's exception whatever soft_fail says.
execute_IgnoresSoftFail(s, poke) ==
    IF poke.exc # NoException
    THEN Effect(poke.exc, <<>>, 0)
    ELSE IF ~poke.returns
         THEN Effect(TaskDeferred, <<DeferArgs(s)>>, 0)
         ELSE Effect(NoException, <<>>, 0)

\* execute with _defer() inside the try block and the suspension signal
\* caught with the poke's exceptions.
execute_SoftFailsDeferral(s, poke) ==
    IF poke.exc # NoException
    THEN IF s.soft_fail
         THEN Effect(Exc("AirflowSkipException", poke.exc.msg), <<>>, 0)
         ELSE Effect(poke.exc, <<>>, 0)
    ELSE IF ~poke.returns
         THEN IF s.soft_fail
              THEN Effect(Exc("AirflowSkipException", ""), <<DeferArgs(s)>>, 0)
              ELSE Effect(TaskDeferred, <<DeferArgs(s)>>, 0)
         ELSE Effect(NoException, <<>>, 0)

\* S3KeySensorAsync.execute, given what its poke() did.
execute(s, poke) ==
    IF poke.exc # NoException
    THEN IF s.soft_fail
         THEN Effect(Exc("AirflowSkipException", poke.exc.msg), <<>>, 0)
         ELSE Effect(poke.exc, <<>>, 0)
    ELSE IF ~poke.returns
         THEN Effect(TaskDeferred, <<DeferArgs(s)>>, 0)
         ELSE Effect(NoException, <<>>, 0)

\* Events a trigger may deliver to execute_complete.
Listings == {<<>>, <<[Size |-> 0]>>, <<[Size |-> 10]>>, <<[Size |-> 10], [Size |-> 0]>>}
KeyEvent(status, files, message, soft_fail) ==
    [status |-> status, files |-> files, message |-> message, soft_fail |-> soft_fail]
KeyEvents ==
    {KeyEvent("running", f, "", FALSE) : f \in Listings}
    \cup {KeyEvent("success", <<>>, "", FALSE), KeyEvent("queued", <<>>, "", FALSE)}
    \cup {KeyEvent("error", <<>>, "mocked error", sf) : sf \in BOOLEAN}
NoEvent == KeyEvent("none", <<>>, "", FALSE)

\* execute_complete falling through to its return when the predicate fails.
execute_complete_NoReDefer(s, event) ==
    IF event.status = "running"
    THEN IF s.check_fn = None
         THEN Effect(Exc("TypeError", "'NoneType' object is not callable"), <<>>, 0)
         ELSE Effect(NoException, <<>>, 1)
    ELSE IF event.status = "error"
         THEN IF event.soft_fail
              THEN Effect(Exc("AirflowSkipException", event.message), <<>>, 0)
              ELSE Effect(Exc("AirflowException", event.message), <<>>, 0)
         ELSE Effect(NoException, <<>>, 0)

\* execute_complete reading the error branch's flag the wrong way round.
execute_complete_SwapsSoftFail(s, event) ==
    IF event.status = "running"
    THEN IF s.check_fn = None
         THEN Effect(Exc("TypeError", "'NoneType' object is not callable"), <<>>, 0)
         ELSE IF Call(s.check_fn, event.files)
              THEN Effect(NoException, <<>>, 1)
              ELSE Effect(TaskDeferred, <<DeferArgs(s)>>, 1)
    ELSE IF event.status = "error"
         THEN IF ~event.soft_fail
              THEN Effect(Exc("AirflowSkipException", event.message), <<>>, 0)
              ELSE Effect(Exc("AirflowException", event.message), <<>>, 0)
         ELSE Effect(NoException, <<>>, 0)

\* execute_complete applying the predicate to every event that is no error.
execute_complete_ChecksOnSuccess(s, event) ==
    IF event.status = "error"
    THEN IF event.soft_fail
         THEN Effect(Exc("AirflowSkipException", event.message), <<>>, 0)
         ELSE Effect(Exc("AirflowException", event.message), <<>>, 0)
    ELSE IF s.check_fn = None
         THEN Effect(NoException, <<>>, 0)
         ELSE IF Call(s.check_fn, event.files)
              THEN Effect(NoException, <<>>, 1)
              ELSE Effect(TaskDeferred, <<DeferArgs(s)>>, 1)

\* execute_complete deferring again after an error event.
execute_complete_ReDefersOnError(s, event) ==
    IF event.status = "running"
    THEN IF s.check_fn = None
         THEN Effect(Exc("TypeError", "'NoneType' object is not callable"), <<>>, 0)
         ELSE IF Call(s.check_fn, event.files)
              THEN Effect(NoException, <<>>, 1)
              ELSE Effect(TaskDeferred, <<DeferArgs(s)>>, 1)
    ELSE IF event.status = "error"
         THEN Effect(TaskDeferred, <<DeferArgs(s)>>, 0)
         ELSE Effect(NoException, <<>>, 0)

\* execute_complete deferring again with a trigger that polls half as often
\* and a timeout cut by the time already waited.
execute_complete_AltersDeferral(s, event) ==
    IF event.status = "running"
    THEN IF s.check_fn = None
         THEN Effect(Exc("TypeError", "'NoneType' object is not callable"), <<>>, 0)
         ELSE IF Call(s.check_fn, event.files)
              THEN Effect(NoException, <<>>, 1)
              ELSE Effect(TaskDeferred,
                          <<[DeferArgs(s) EXCEPT !.timeout = timedelta(s.timeout - s.poke_interval),
                                                 !.trigger.poke_interval = 2 * s.poke_interval]>>,
                          1)
    ELSE IF event.status = "error"
         THEN IF event.soft_fail
              THEN Effect(Exc("AirflowSkipException", event.message), <<>>, 0)
              ELSE Effect(Exc("AirflowException", event.message), <<>>, 0)
         ELSE Effect(NoException, <<>>, 0)

\* S3KeySensorAsync.execute_complete. Calling an unset check_fn (None) is a
\* TypeError; defer() raises TaskDeferred, so nothing runs after _defer().
execute_complete(s, event) ==
    IF event.status = "running"
    THEN IF s.check_fn = None
         THEN Effect(Exc("TypeError", "'NoneType' object is not callable"), <<>>, 0)
         ELSE IF Call(s.check_fn, event.files)
              THEN Effect(NoException, <<>>, 1)
              ELSE Effect(TaskDeferred, <<DeferArgs(s)>>, 1)
    ELSE IF event.status = "error"
         THEN IF event.soft_fail
              THEN Effect(Exc("AirflowSkipException", event.message), <<>>, 0)
              ELSE Effect(Exc("AirflowException", event.message), <<>>, 0)
         ELSE Effect(NoException, <<>>, 0)

\* The host's reading of how a handler ended.
TaskState(exc) ==
    CASE exc = NoException -> "success"
      [] exc = TaskDeferred -> "deferred"
      [] exc.type = "AirflowSkipException" -> "skipped"
      [] OTHER -> "failed"

\* The bucket_key arguments a DAG author may pass: a string, plain or
\* templated, or a list of strings.
TemplatedKey == "{{ var.value.test_bucket_key }}"
BucketKeys ==
    {Str("key"), Str(TemplatedKey), List(<<"key">>), List(<<"a", "b">>), List(<<>>)}

KeySensorsFor(k) ==
    {S3KeySensorAsync(k, b, w, r, f, "aws_default", None, sf, 5, t) :
        b \in {None, "bucket"},
        w \in BOOLEAN,
        r \in BOOLEAN,
        f \in {None} \cup CheckFns,
        sf \in BOOLEAN,
        t \in {DefaultTimeout, 90000}}
KeySensors == UNION {KeySensorsFor(k) : k \in BucketKeys}

KeySizeSensorsFor(k) ==
    {S3KeySizeSensorAsync(f, k, b, w, r, "aws_default", None, sf, 5, t) :
        f \in {None} \cup CheckFns,
        b \in {None, "bucket"},
        w \in BOOLEAN,
        r \in BOOLEAN,
        sf \in BOOLEAN,
        t \in {DefaultTimeout, 90000}}

\* Jinja rendering of one templated string.
Render(str) == IF str = TemplatedKey THEN "s3://bucket/key" ELSE str

\* Rendering of a templated list: every element rendered, the list kept.
RenderList(list) == [i \in DOMAIN list |-> Render(list[i])]

\* Before it runs execute, the host renders the task's template fields.
RenderTemplates ==
    /\ kpc = "constructed"
    /\ pokes = 0
    /\ sensor' = [sensor EXCEPT !.bucket_key = RenderList(@)]
    /\ UNCHANGED <<kargs, kpc, pokes, checks, deferCalls, raised, lastEvent, lastPoke, newDefers, newChecks>>
    /\ UNCHANGED <<notKeyVars, krun>>

\* The worker runs execute(context) on the task.
Execute(poke) ==
    LET eff == execute(sensor, poke) IN
    /\ kpc = "constructed"
    /\ Len(deferCalls) + Len(eff.defers) <= MaxDefers
    /\ pokes' = pokes + 1
    /\ lastPoke' = poke
    /\ newDefers' = eff.defers
    /\ newChecks' = eff.evals
    /\ checks' = checks + eff.evals
    /\ deferCalls' = deferCalls \o eff.defers
    /\ raised' = eff.exc
    /\ kpc' = TaskState(eff.exc)
    /\ UNCHANGED <<kargs, sensor, lastEvent>>
    /\ UNCHANGED <<notKeyVars, krun>>

\* The trigger fired: the worker resumes the deferred task with its event.
ExecuteComplete(event) ==
    LET eff == execute_complete(sensor, event) IN
    /\ kpc = "deferred"
    /\ Len(deferCalls) + Len(eff.defers) <= MaxDefers
    /\ lastEvent' = event
    /\ newDefers' = eff.defers
    /\ newChecks' = eff.evals
    /\ checks' = checks + eff.evals
    /\ deferCalls' = deferCalls \o eff.defers
    /\ raised' = eff.exc
    /\ kpc' = TaskState(eff.exc)
    /\ UNCHANGED <<kargs, sensor, pokes, lastPoke>>
    /\ UNCHANGED <<notKeyVars, krun>>

KeyNext ==
    \/ RenderTemplates
    \/ \E poke \in PokeOutcomes : Execute(poke)
    \/ \E event \in KeyEvents : ExecuteComplete(event)

\* ---------------------------------------------------------------- S3KeyTrigger and the host

\* What resolving the key patterns against the bucket gives on one poll: the
\* positions of the patterns that resolve, or an access error.
Resolved(found) == [error |-> "", found |-> found]
ResolveFails(msg) == [error |-> msg, found |-> {}]
Resolutions(cfg) ==
    {Resolved(f) : f \in SUBSET (1..Len(cfg.bucket_key))}
    \cup {ResolveFails("Access Denied")}

\* One poll of the S3KeyTrigger: the event it emits, or NoEvent when it
\* sleeps and polls again. Every pattern must resolve; a failed resolution is
\* an error event carrying the trigger's soft_fail flag; with a predicate
\* configured the listing is handed to the task in a running event.
S3KeyTriggerPoll(cfg, res, files) ==
    IF res.error # ""
    THEN KeyEvent("error", <<>>, res.error, cfg.soft_fail)
    ELSE IF res.found = 1..Len(cfg.bucket_key)
         THEN IF cfg.should_check_fn
              THEN KeyEvent("running", files, "", FALSE)
              ELSE KeyEvent("success", <<>>, "", FALSE)
         ELSE NoEvent

\* A trigger run: the deferral it belongs to, its position, its polls so far,
\* what its last poll resolved and the event it emitted.
NoRun == [gen |-> 0, pc |-> "none", polls |-> 0, last |-> Resolved({}), event |-> NoEvent]

\* The host starts the trigger that the task's latest defer() registered.
TriggerStart ==
    /\ kpc = "deferred"
    /\ krun.gen < Len(deferCalls)
    /\ krun' = [NoRun EXCEPT !.gen = Len(deferCalls), !.pc = "polling"]
    /\ UNCHANGED <<keyVars, notKeyVars>>

\* The running trigger polls once.
TriggerPoll ==
    /\ kpc = "deferred"
    /\ krun.pc = "polling"
    /\ krun.polls < MaxTicks
    /\ \E res \in Resolutions(deferCalls[krun.gen].trigger), files \in Listings :
          LET ev == S3KeyTriggerPoll(deferCalls[krun.gen].trigger, res, files) IN
          krun' = [krun EXCEPT !.polls = @ + 1,
                               !.last = res,
                               !.event = ev,
                               !.pc = IF ev = NoEvent THEN "polling" ELSE "fired"]
    /\ UNCHANGED <<keyVars, notKeyVars>>

\* The host resumes the task with the event its trigger emitted.
Resume ==
    /\ krun.pc = "fired"
    /\ krun.gen = Len(deferCalls)
    /\ ExecuteComplete(krun.event)

\* The timeout given to defer() elapses first: the host cancels the trigger
\* and marks the task failed.
DeferTimeout ==
    /\ kpc = "deferred"
    /\ kpc' = "timed_out"
    /\ raised' = Exc("TaskDeferralError", "Trigger/execution timeout")
    /\ krun' = [krun EXCEPT !.pc = "cancelled"]
    /\ UNCHANGED <<kargs, sensor, pokes, checks, deferCalls, lastEvent, lastPoke, newDefers, newChecks>>
    /\ UNCHANGED notKeyVars

KeyTrigNext ==
    \/ RenderTemplates
    \/ \E poke \in PokeOutcomes : Execute(poke)
    \/ TriggerStart
    \/ TriggerPoll
    \/ Resume
    \/ DeferTimeout

\* ---------------------------------------------------------------- S3KeysUnchangedSensorAsync

\* Polls one run of the S3KeysUnchangedTrigger may make before the model
\* stops following it.
MaxUnchangedPolls == 11

\* An optional timestamp: None, or the time t.
Unset == <<>>
At(t) == <<t>>

\* A constructor that accepts any inactivity period.
ConstructionError_Unchecked(s) == NoException

\* What constructing the sensor raises: a negative inactivity period is
\* rejected with a ValueError.
ConstructionError(s) ==
    IF s.inactivity_period < 0
    THEN Exc("ValueError", "inactivity_period must be non-negative")
    ELSE NoException

\* The attributes of S3KeysUnchangedSensorAsync(**kwargs): the keyword
\* arguments, and the history the sensor accumulates over its pokes.
S3KeysUnchangedSensorAsync(bucket_name, prefix, inactivity_period, min_objects, allow_delete, soft_fail, timeout) ==
    [bucket_name |-> bucket_name,
     prefix |-> prefix,
     aws_conn_id |-> "aws_default",
     verify |-> None,
     inactivity_period |-> inactivity_period,
     min_objects |-> min_objects,
     previous_objects |-> {},
     inactivity_seconds |-> 0,
     last_activity_time |-> Unset,
     allow_delete |-> allow_delete,
     soft_fail |-> soft_fail,
     timeout |-> timeout]

\* A trigger given the task's inactivity_seconds as its inactivity_period.
S3KeysUnchangedTrigger_MixesPeriod(s) ==
    [bucket_name |-> s.bucket_name,
     prefix |-> s.prefix,
     inactivity_period |-> s.inactivity_seconds,
     min_objects |-> s.min_objects,
     previous_objects |-> s.previous_objects,
     inactivity_seconds |-> s.inactivity_seconds,
     allow_delete |-> s.allow_delete,
     aws_conn_id |-> s.aws_conn_id,
     verify |-> s.verify,
     last_activity_time |-> s.last_activity_time]

\* A trigger built without the task's allow_delete: deletions tolerated.
S3KeysUnchangedTrigger_AllowsDelete(s) ==
    [bucket_name |-> s.bucket_name,
     prefix |-> s.prefix,
     inactivity_period |-> s.inactivity_period,
     min_objects |-> s.min_objects,
     previous_objects |-> s.previous_objects,
     inactivity_seconds |-> s.inactivity_seconds,
     allow_delete |-> TRUE,
     aws_conn_id |-> s.aws_conn_id,
     verify |-> s.verify,
     last_activity_time |-> s.last_activity_time]

\* A trigger that starts its history afresh instead of taking the task's.
S3KeysUnchangedTrigger_Resets(s) ==
    [bucket_name |-> s.bucket_name,
     prefix |-> s.prefix,
     inactivity_period |-> s.inactivity_period,
     min_objects |-> s.min_objects,
     previous_objects |-> {},
     inactivity_seconds |-> 0,
     allow_delete |-> s.allow_delete,
     aws_conn_id |-> s.aws_conn_id,
     verify |-> s.verify,
     last_activity_time |-> Unset]

\* A trigger built without the task's min_objects: the count left at one.
S3KeysUnchangedTrigger_DropsMinObjects(s) ==
    [bucket_name |-> s.bucket_name,
     prefix |-> s.prefix,
     inactivity_period |-> s.inactivity_period,
     min_objects |-> 1,
     previous_objects |-> s.previous_objects,
     inactivity_seconds |-> s.inactivity_seconds,
     allow_delete |-> s.allow_delete,
     aws_conn_id |-> s.aws_conn_id,
     verify |-> s.verify,
     last_activity_time |-> s.last_activity_time]

\* The S3KeysUnchangedTrigger(...) built by execute.
S3KeysUnchangedTrigger(s) ==
    [bucket_name |-> s.bucket_name,
     prefix |-> s.prefix,
     inactivity_period |-> s.inactivity_period,
     min_objects |-> s.min_objects,
     previous_objects |-> s.previous_objects,
     inactivity_seconds |-> s.inactivity_seconds,
     allow_delete |-> s.allow_delete,
     aws_conn_id |-> s.aws_conn_id,
     verify |-> s.verify,
     last_activity_time |-> s.last_activity_time]

\* The arguments of the defer() call in execute.
UnchangedDeferArgs(s) ==
    [timeout |-> timedelta(s.timeout),
     trigger |-> S3KeysUnchangedTrigger(s),
     method_name |-> "execute_complete"]

\* What poke() may do: raise, or return a boolean after updating the
\* sensor's history from the listing it saw.
UnchangedPoke(returns, exc, previous_objects, inactivity_seconds, last_activity_time) ==
    [returns |-> returns,
     exc |-> exc,
     previous_objects |-> previous_objects,
     inactivity_seconds |-> inactivity_seconds,
     last_activity_time |-> last_activity_time]
UnchangedPokeOutcomes ==
    {UnchangedPoke(FALSE, NoException, po, is, la) :
        po \in {{}, {"x"}}, is \in {0, 10}, la \in {Unset, At(0)}}
    \cup {UnchangedPoke(TRUE, NoException, {"x"}, 10, At(0)),
          UnchangedPoke(FALSE, Exc("ClientError", "403 Forbidden"), {}, 0, Unset)}

\* The sensor after a poke.
Poked(s, poke) ==
    [s EXCEPT !.previous_objects = poke.previous_objects,
              !.inactivity_seconds = poke.inactivity_seconds,
              !.last_activity_time = poke.last_activity_time]

\* execute turning the poke's exception into a skip for a soft_fail task, as
\* the existence sensor does.
unchanged_execute_SoftFails(s, poke) ==
    IF poke.exc # NoException
    THEN IF s.soft_fail
         THEN Effect(Exc("AirflowSkipException", poke.exc.msg), <<>>, 0)
         ELSE Effect(poke.exc, <<>>, 0)
    ELSE IF ~poke.returns
         THEN Effect(TaskDeferred, <<UnchangedDeferArgs(Poked(s, poke))>>, 0)
         ELSE Effect(NoException, <<>>, 0)

\* S3KeysUnchangedSensorAsync.execute, given what poke() does.
unchanged_execute(s, poke) ==
    IF poke.exc # NoException
    THEN Effect(poke.exc, <<>>, 0)
    ELSE IF ~poke.returns
         THEN Effect(TaskDeferred, <<UnchangedDeferArgs(Poked(s, poke))>>, 0)
         ELSE Effect(NoException, <<>>, 0)

\* The events the unchanged-set trigger may deliver, and one with a status
\* execute_complete does not know.
UnchangedEvent(status, message) == [status |-> status, message |-> message]
NoUnchangedEvent == UnchangedEvent("none", "")
UnchangedEvents ==
    {UnchangedEvent("success", ""),
     UnchangedEvent("running", ""),
     UnchangedEvent("error", "Mocked error"),
     UnchangedEvent("error", "Illegal behavior: objects were deleted")}

\* execute_complete turning an error into a skip for a soft_fail task.
unchanged_execute_complete_SoftFails(s, event) ==
    IF event.status = "error"
    THEN IF s.soft_fail
         THEN Effect(Exc("AirflowSkipException", event.message), <<>>, 0)
         ELSE Effect(Exc("AirflowException", event.message), <<>>, 0)
    ELSE Effect(NoException, <<>>, 0)

\* S3KeysUnchangedSensorAsync.execute_complete.
unchanged_execute_complete(s, event) ==
    IF event.status = "error"
    THEN Effect(Exc("AirflowException", event.message), <<>>, 0)
    ELSE Effect(NoException, <<>>, 0)

UnchangedSensors ==
    {S3KeysUnchangedSensorAsync("test_bucket", "test", ip, mo, ad, sf, DefaultTimeout) :
        ip \in {-100, 0, 100}, mo \in {1, 2}, ad \in BOOLEAN, sf \in BOOLEAN}

\* A trigger run: its position, its polls so far, its poll interval, the
\* history it carries, what its last poll saw (the listing, the previous set
\* and the inactivity it started from) and the event it emitted.
NoUnchangedRun ==
    [pc |-> "none", polls |-> 0, poll_interval |-> 0,
     previous_objects |-> {}, inactivity_seconds |-> 0, last_activity_time |-> Unset,
     kind |-> "none", before |-> 0, was |-> {}, listed |-> {},
     event |-> NoUnchangedEvent]

\* The task runs: execute calls poke once and defers unless it returned True.
UnchangedExecute(poke) ==
    LET eff == unchanged_execute(usensor, poke) IN
    /\ upc = "constructed"
    /\ usensor' = Poked(usensor, poke)
    /\ upokes' = Append(upokes, poke)
    /\ udefers' = udefers \o eff.defers
    /\ uraised' = eff.exc
    /\ upc' = TaskState(eff.exc)
    /\ UNCHANGED <<uevent, urun>>
    /\ UNCHANGED notUnchVars

\* The host resumes the deferred task with an event.
UnchangedExecuteComplete(event) ==
    LET eff == unchanged_execute_complete(usensor, event) IN
    /\ upc = "deferred"
    /\ uevent' = event
    /\ udefers' = udefers \o eff.defers
    /\ uraised' = eff.exc
    /\ upc' = TaskState(eff.exc)
    /\ UNCHANGED <<usensor, upokes, urun>>
    /\ UNCHANGED notUnchVars

UnchangedNext ==
    \/ \E poke \in UnchangedPokeOutcomes : UnchangedExecute(poke)
    \/ \E event \in UnchangedEvents : UnchangedExecuteComplete(event)

\* ---------------------------------------------------------------- S3KeysUnchangedTrigger and the host

\* The objects a listing of the prefix may hold, and the poll intervals.
Objects == {"x", "y"}
PollIntervals == {10, 50}

\* One poll of the unchanged-set trigger on the listing `current` at time
\* `now`: the run after it. A listing that only gained objects is growth: the
\* inactivity restarts. The same listing adds one poll interval. A listing
\* that lost objects is an error, or restarts the inactivity when deletions
\* are allowed. The run succeeds once the inactivity has reached the window
\* and the listing holds the minimum number of objects.
UnchangedPoll(cfg, run, current, now) ==
    LET kind == IF current = run.previous_objects THEN "nochange"
                ELSE IF run.previous_objects \subseteq current THEN "growth"
                ELSE "shrink"
        inactivity == IF kind = "nochange"
                      THEN run.inactivity_seconds + run.poll_interval
                      ELSE 0
        polled == [run EXCEPT !.polls = @ + 1, !.kind = kind,
                              !.before = run.inactivity_seconds,
                              !.was = run.previous_objects,
                              !.listed = current]
    IN
    IF kind = "shrink" /\ ~cfg.allow_delete
    THEN [polled EXCEPT !.pc = "fired",
                        !.event = UnchangedEvent("error", "Illegal behavior: objects were deleted")]
    ELSE LET next == [polled EXCEPT
                         !.previous_objects = current,
                         !.inactivity_seconds = inactivity,
                         !.last_activity_time = IF kind = "nochange" THEN @ ELSE At(now)]
         IN
         IF inactivity >= cfg.inactivity_period /\ Cardinality(current) >= cfg.min_objects
         THEN [next EXCEPT !.pc = "fired", !.event = UnchangedEvent("success", "")]
         ELSE next

\* The host starts the trigger the task registered, with the history the
\* task handed over.
UnchangedTriggerStart(interval) ==
    /\ upc = "deferred"
    /\ urun.pc = "none"
    /\ urun' = [NoUnchangedRun EXCEPT
                   !.pc = "polling",
                   !.poll_interval = interval,
                   !.previous_objects = udefers[1].trigger.previous_objects,
                   !.inactivity_seconds = udefers[1].trigger.inactivity_seconds,
                   !.last_activity_time = udefers[1].trigger.last_activity_time]
    /\ UNCHANGED <<usensor, upc, upokes, udefers, uraised, uevent>>
    /\ UNCHANGED notUnchVars

\* The running trigger polls once.
UnchangedTriggerPoll(current) ==
    /\ upc = "deferred"
    /\ urun.pc = "polling"
    /\ urun.polls < MaxUnchangedPolls
    /\ urun' = UnchangedPoll(udefers[1].trigger, urun, current, urun.polls + 1)
    /\ UNCHANGED <<usensor, upc, upokes, udefers, uraised, uevent>>
    /\ UNCHANGED notUnchVars

\* The host resumes the task with the event its trigger emitted.
UnchangedResume ==
    /\ urun.pc = "fired"
    /\ UnchangedExecuteComplete(urun.event)

\* The timeout given to defer() elapses first: the host cancels the trigger
\* and marks the task failed.
UnchangedDeferTimeout ==
    /\ upc = "deferred"
    /\ upc' = "timed_out"
    /\ uraised' = Exc("TaskDeferralError", "Trigger/execution timeout")
    /\ urun' = [urun EXCEPT !.pc = "cancelled"]
    /\ UNCHANGED <<usensor, upokes, udefers, uevent>>
    /\ UNCHANGED notUnchVars

UnchangedTrigNext ==
    \/ \E poke \in UnchangedPokeOutcomes : UnchangedExecute(poke)
    \/ \E interval \in PollIntervals : UnchangedTriggerStart(interval)
    \/ \E current \in SUBSET Objects : UnchangedTriggerPoll(current)
    \/ UnchangedResume
    \/ UnchangedDeferTimeout

\* ---------------------------------------------------------------- asynchronous BigQuery operators

\* The five operators and the trigger class each defers with.
BigQueryKinds == {"insert_job", "check", "interval_check", "get_data", "value_check"}
TriggerOf(kind) ==
    CASE kind = "insert_job" -> "BigQueryInsertJobTrigger"
      [] kind = "check" -> "BigQueryCheckTrigger"
      [] kind = "interval_check" -> "BigQueryIntervalCheckTrigger"
      [] kind = "get_data" -> "BigQueryGetDataTrigger"
      [] kind = "value_check" -> "BigQueryValueCheckTrigger"

\* The attributes of an operator the handlers read. Only the insert-job
\* operator takes a job id, a project and reattach_states.
BigQueryOperatorAsync(kind, job_id, location, project_id, reattach_states) ==
    [kind |-> kind,
     job_id |-> job_id,
     location |-> location,
     project_id |-> project_id,
     reattach_states |-> reattach_states,
     force_rerun |-> TRUE]

\* hook.generate_job_id: the job id with the hash of the job appended.
GenerateJobId(job_id) ==
    CASE job_id = "123456" -> "123456_hash"
      [] job_id = "654321" -> "654321_hash"
      [] OTHER -> "airflow_hash"

\* A job as the hook hands it over: its id, its state, whether it is done,
\* its error_result. running() is true of a job that is not done.
Job(job_id, state, done) ==
    [job_id |-> job_id, state |-> state, done |-> done, error_result |-> FALSE]
Running(job) == ~job.done

\* job._begin(): the job is started again.
Begin(job) == [job EXCEPT !.state = "PENDING", !.done = FALSE]

\* What the hook answers to execute: insert_job returns the job it created,
\* or raises Conflict because a job of that id exists, which get_job returns.
BqEnv(insert, state, done) == [insert |-> insert, state |-> state, done |-> done]
NoBqEnv == BqEnv("none", "", FALSE)
ConflictEnvs ==
    {BqEnv("Conflict", "PENDING", FALSE),
     BqEnv("Conflict", "RUNNING", FALSE),
     BqEnv("Conflict", "DONE", TRUE)}
AllBqEnvs ==
    {BqEnv("job", "RUNNING", FALSE), BqEnv("job", "DONE", TRUE)} \cup ConflictEnvs

\* The answers followed for one operator: a conflict is followed for the
\* insert-job operator only.
BqEnvs(op) == IF op.kind = "insert_job" THEN AllBqEnvs ELSE AllBqEnvs \ ConflictEnvs

\* Exceptions of the operators; the one for an existing job names the job.
BqExc(type, msg, job_id, state) ==
    [type |-> type, msg |-> msg, job_id |-> job_id, state |-> state]
NoBqException == BqExc("none", "", "", "")
BqTaskDeferred == BqExc("TaskDeferred", "", "", "")
AlreadyExists(job) ==
    BqExc("AirflowException", "Job already exists and is not in reattach_states",
          job.job_id, job.state)

\* The calls execute makes on the hook, the job and its base class.
BqCall(call, job_id, location, project_id) ==
    [call |-> call, job_id |-> job_id, location |-> location, project_id |-> project_id]
CallsOf(calls, name) == {i \in 1..Len(calls) : calls[i].call = name}

\* A handler's effect: the exception it ends with, the defer() calls and the
\* other calls it made.
BqEffect(exc, defers, calls) == [exc |-> exc, defers |-> defers, calls |-> calls]

\* The arguments of defer(): the operator's own trigger, for the job.
BqDeferArgs(op, job) ==
    [trigger |-> [type |-> TriggerOf(op.kind), job_id |-> job.job_id],
     method_name |-> "execute_complete"]

\* What execute does once it holds its job: defer while the job is running,
\* else finish at once (the check operators through their base execute).
AfterSubmit(op, job, calls) ==
    IF Running(job)
    THEN BqEffect(BqTaskDeferred, <<BqDeferArgs(op, job)>>, calls)
    ELSE IF op.kind = "insert_job"
         THEN BqEffect(NoBqException, <<>>, calls)
         ELSE BqEffect(NoBqException, <<>>,
                       Append(calls, BqCall("super.execute", job.job_id, op.location, op.project_id)))

\* execute deferring whether or not the job is still running.
bigquery_execute_AlwaysDefers(op, env) ==
    LET id == GenerateJobId(op.job_id)
        job == Job(id, env.state, env.done)
    IN BqEffect(BqTaskDeferred, <<BqDeferArgs(op, job)>>,
                <<BqCall("insert_job", id, op.location, op.project_id)>>)

\* execute reattaching to an existing job whatever its state.
bigquery_execute_ReattachesAny(op, env) ==
    LET id == GenerateJobId(op.job_id)
        job == Job(id, env.state, env.done)
        submit == IF op.kind = "insert_job"
                  THEN <<BqCall("generate_job_id", op.job_id, op.location, op.project_id),
                         BqCall("insert_job", id, op.location, op.project_id)>>
                  ELSE <<BqCall("insert_job", id, op.location, op.project_id)>>
    IN
    IF env.insert = "Conflict"
    THEN AfterSubmit(op, Begin(job),
                     submit \o <<BqCall("get_job", id, op.location, op.project_id),
                                 BqCall("_begin", id, op.location, op.project_id)>>)
    ELSE AfterSubmit(op, job, submit)

\* execute of the five operators, given what the hook answers.
bigquery_execute(op, env) ==
    LET id == GenerateJobId(op.job_id)
        job == Job(id, env.state, env.done)
        submit == IF op.kind = "insert_job"
                  THEN <<BqCall("generate_job_id", op.job_id, op.location, op.project_id),
                         BqCall("insert_job", id, op.location, op.project_id)>>
                  ELSE <<BqCall("insert_job", id, op.location, op.project_id)>>
        found == submit \o <<BqCall("get_job", id, op.location, op.project_id)>>
    IN
    IF env.insert = "Conflict"
    THEN IF job.state \in op.reattach_states
         THEN AfterSubmit(op, Begin(job),
                          Append(found, BqCall("_begin", id, op.location, op.project_id)))
         ELSE BqEffect(AlreadyExists(job), <<>>, found)
    ELSE AfterSubmit(op, job, submit)

\* Events handed to execute_complete: a status, a message, and the records
\* of the query where the trigger returns them (each record by its text).
BqEvent(status, message, records) ==
    [status |-> status, message |-> message, records |-> records]
NoBqEvent == BqEvent("none", "", <<>>)
NoRecords == <<"None">>
BqEvents ==
    {BqEvent("error", "test failure message", NoRecords),
     BqEvent("success", "Job completed", NoRecords),
     BqEvent("success", "", <<"20">>),
     BqEvent("success", "", <<"20", "False">>)}

\* Python's truth value of a record.
Truthy(v) == v \notin {"False", "0", "None", ""}

\* execute_complete returning normally on an error event.
bigquery_execute_complete_IgnoresError(op, event) ==
    BqEffect(NoBqException, <<>>, <<>>)

\* execute_complete of the five operators.
bigquery_execute_complete(op, event) ==
    IF event.status = "error"
    THEN BqEffect(BqExc("AirflowException", event.message, "", ""), <<>>, <<>>)
    ELSE IF op.kind = "check"
         THEN IF event.records = NoRecords
              THEN BqEffect(BqExc("AirflowException", "The query returned None", "", ""), <<>>, <<>>)
              ELSE IF \E i \in 1..Len(event.records) : ~Truthy(event.records[i])
                   THEN BqEffect(BqExc("AirflowException", "Test failed.", "", ""), <<>>, <<>>)
                   ELSE BqEffect(NoBqException, <<>>, <<>>)
         ELSE BqEffect(NoBqException, <<>>, <<>>)

\* The host's reading of how a handler ended.
BqTaskState(exc) ==
    CASE exc = NoBqException -> "success"
      [] exc = BqTaskDeferred -> "deferred"
      [] OTHER -> "failed"

BigQueryOperators ==
    {BigQueryOperatorAsync("insert_job", j, l, "test-project", rs) :
        j \in {"123456", "654321"}, l \in {"EU", "US"},
        rs \in {{"PENDING"}, {"PENDING", "RUNNING"}}}
    \cup {BigQueryOperatorAsync(k, "", l, "", {}) :
            k \in BigQueryKinds \ {"insert_job"}, l \in {"EU", "US"}}
IdleBigQueryOperator == BigQueryOperatorAsync("insert_job", "123456", "EU", "test-project", {"PENDING"})

\* The worker runs execute(context) on the operator.
BigQueryExecute(env) ==
    LET eff == bigquery_execute(bop, env) IN
    /\ bpc = "constructed"
    /\ env \in BqEnvs(bop)
    /\ benv' = env
    /\ bcalls' = bcalls \o eff.calls
    /\ bdefers' = bdefers \o eff.defers
    /\ braised' = eff.exc
    /\ bpc' = BqTaskState(eff.exc)
    /\ UNCHANGED <<bop, bevent>>
    /\ UNCHANGED notBqVars

\* The trigger fired: the worker resumes the deferred operator with its event.
BigQueryExecuteComplete(event) ==
    LET eff == bigquery_execute_complete(bop, event) IN
    /\ bpc = "deferred"
    /\ bevent' = event
    /\ bcalls' = bcalls \o eff.calls
    /\ bdefers' = bdefers \o eff.defers
    /\ braised' = eff.exc
    /\ bpc' = BqTaskState(eff.exc)
    /\ UNCHANGED <<bop, benv>>
    /\ UNCHANGED notBqVars

BigQueryNext ==
    \/ \E env \in AllBqEnvs : BigQueryExecute(env)
    \/ \E event \in BqEvents : BigQueryExecuteComplete(event)

\* ---------------------------------------------------------------- specifications

\* The values a component's variables keep while the other one runs.
IdleTrigger ==
    HttpTrigger("/ep", DefaultHttpConnId, DefaultMethod, None, None, None, DefaultPollInterval)
IdleUnchangedSensor ==
    S3KeysUnchangedSensorAsync("test_bucket", "test", 0, 1, FALSE, FALSE, DefaultTimeout)
IdleSensor ==
    S3KeySensorAsync(Str("key"), None, FALSE, FALSE, None, "aws_default", None, FALSE, 5, DefaultTimeout)

\* A trigger was constructed; its run() has not started. No sensor in play.
HttpInit ==
    /\ orig \in HttpArgs
    /\ trig = orig
    /\ restored = FALSE
    /\ hook = NoHook
    /\ hpc = "created"
    /\ trace = <<>>
    /\ kargs = Str("key")
    /\ sensor = IdleSensor
    /\ kpc = "idle"
    /\ pokes = 0
    /\ checks = 0
    /\ deferCalls = <<>>
    /\ raised = NoException
    /\ lastEvent = NoEvent
    /\ lastPoke = NoPoke
    /\ newDefers = <<>>
    /\ newChecks = 0
    /\ krun = NoRun
    /\ usensor = IdleUnchangedSensor
    /\ upc = "idle"
    /\ upokes = <<>>
    /\ udefers = <<>>
    /\ uraised = NoException
    /\ uevent = NoUnchangedEvent
    /\ urun = NoUnchangedRun
    /\ bop = IdleBigQueryOperator
    /\ bpc = "idle"
    /\ benv = NoBqEnv
    /\ bcalls = <<>>
    /\ bdefers = <<>>
    /\ braised = NoBqException
    /\ bevent = NoBqEvent

\* A sensor task was constructed; execute has not run. No HttpTrigger in play.
KeyInit ==
    /\ kargs \in BucketKeys
    /\ sensor \in KeySensorsFor(kargs)
    /\ kpc = "constructed"
    /\ pokes = 0
    /\ checks = 0
    /\ deferCalls = <<>>
    /\ raised = NoException
    /\ lastEvent = NoEvent
    /\ lastPoke = NoPoke
    /\ newDefers = <<>>
    /\ newChecks = 0
    /\ orig = IdleTrigger
    /\ trig = orig
    /\ restored = FALSE
    /\ hook = NoHook
    /\ hpc = "idle"
    /\ trace = <<>>
    /\ krun = NoRun
    /\ usensor = IdleUnchangedSensor
    /\ upc = "idle"
    /\ upokes = <<>>
    /\ udefers = <<>>
    /\ uraised = NoException
    /\ uevent = NoUnchangedEvent
    /\ urun = NoUnchangedRun
    /\ bop = IdleBigQueryOperator
    /\ bpc = "idle"
    /\ benv = NoBqEnv
    /\ bcalls = <<>>
    /\ bdefers = <<>>
    /\ braised = NoBqException
    /\ bevent = NoBqEvent

\* The HttpTrigger alone.
HttpSpec == HttpInit /\ [][HttpNext]_vars

\* The S3KeySensorAsync task alone, resumed with any event.
KeySpec == KeyInit /\ [][KeyNext]_vars

\* The S3KeySensorAsync task with the host and the triggers it registers.
KeyTrigSpec == KeyInit /\ [][KeyTrigNext]_vars

KeySizeInit ==
    /\ kargs \in BucketKeys
    /\ sensor \in KeySizeSensorsFor(kargs)
    /\ kpc = "constructed"
    /\ pokes = 0
    /\ checks = 0
    /\ deferCalls = <<>>
    /\ raised = NoException
    /\ lastEvent = NoEvent
    /\ lastPoke = NoPoke
    /\ newDefers = <<>>
    /\ newChecks = 0
    /\ orig = IdleTrigger
    /\ trig = orig
    /\ restored = FALSE
    /\ hook = NoHook
    /\ hpc = "idle"
    /\ trace = <<>>
    /\ krun = NoRun
    /\ usensor = IdleUnchangedSensor
    /\ upc = "idle"
    /\ upokes = <<>>
    /\ udefers = <<>>
    /\ uraised = NoException
    /\ uevent = NoUnchangedEvent
    /\ urun = NoUnchangedRun
    /\ bop = IdleBigQueryOperator
    /\ bpc = "idle"
    /\ benv = NoBqEnv
    /\ bcalls = <<>>
    /\ bdefers = <<>>
    /\ braised = NoBqException
    /\ bevent = NoBqEvent

\* The deprecated S3KeySizeSensorAsync task, resumed with any event.
KeySizeSpec == KeySizeInit /\ [][KeyNext]_vars

\* S3KeysUnchangedSensorAsync(...) was called: a task was constructed, or the
\* call raised. No trigger and no other sensor in play.
UnchangedInit ==
    /\ orig = IdleTrigger
    /\ trig = orig
    /\ restored = FALSE
    /\ hook = NoHook
    /\ hpc = "idle"
    /\ trace = <<>>
    /\ kargs = Str("key")
    /\ sensor = IdleSensor
    /\ kpc = "idle"
    /\ pokes = 0
    /\ checks = 0
    /\ deferCalls = <<>>
    /\ raised = NoException
    /\ lastEvent = NoEvent
    /\ lastPoke = NoPoke
    /\ newDefers = <<>>
    /\ newChecks = 0
    /\ krun = NoRun
    /\ usensor \in UnchangedSensors
    /\ uraised = ConstructionError(usensor)
    /\ upc = IF uraised = NoException THEN "constructed" ELSE "config_error"
    /\ upokes = <<>>
    /\ udefers = <<>>
    /\ uevent = NoUnchangedEvent
    /\ urun = NoUnchangedRun
    /\ bop = IdleBigQueryOperator
    /\ bpc = "idle"
    /\ benv = NoBqEnv
    /\ bcalls = <<>>
    /\ bdefers = <<>>
    /\ braised = NoBqException
    /\ bevent = NoBqEvent

\* An asynchronous BigQuery operator was constructed. Nothing else in play.
BigQueryInit ==
    /\ orig = IdleTrigger
    /\ trig = orig
    /\ restored = FALSE
    /\ hook = NoHook
    /\ hpc = "idle"
    /\ trace = <<>>
    /\ kargs = Str("key")
    /\ sensor = IdleSensor
    /\ kpc = "idle"
    /\ pokes = 0
    /\ checks = 0
    /\ deferCalls = <<>>
    /\ raised = NoException
    /\ lastEvent = NoEvent
    /\ lastPoke = NoPoke
    /\ newDefers = <<>>
    /\ newChecks = 0
    /\ krun = NoRun
    /\ usensor = IdleUnchangedSensor
    /\ upc = "idle"
    /\ upokes = <<>>
    /\ udefers = <<>>
    /\ uraised = NoException
    /\ uevent = NoUnchangedEvent
    /\ urun = NoUnchangedRun
    /\ bop \in BigQueryOperators
    /\ bpc = "constructed"
    /\ benv = NoBqEnv
    /\ bcalls = <<>>
    /\ bdefers = <<>>
    /\ braised = NoBqException
    /\ bevent = NoBqEvent

\* The asynchronous BigQuery operators, resumed with any event.
BigQuerySpec == BigQueryInit /\ [][BigQueryNext]_vars

\* The S3KeysUnchangedSensorAsync task alone, resumed with any event.
UnchangedSpec == UnchangedInit /\ [][UnchangedNext]_vars

\* The S3KeysUnchangedSensorAsync task with the host and its trigger.
UnchangedTrigSpec == UnchangedInit /\ [][UnchangedTrigNext]_vars

\* ---------------------------------------------------------------- HttpTrigger: claims

\* A response of the endpoint other than "not found": the request returned,
\* or the hook raised an AirflowException whose text does not start with 404.
IsOtherResponse(o) ==
    o.type \in {"return", "AirflowException"} /\ ~IsNotFound(o)

\* C1: every outcome of a request other than a "not found" ends the polling
\* loop: a returned request is followed by the success event, any other
\* failure by the exception leaving run(), and no request is issued after it.
C1_NonNotFoundEndsLoop ==
    \A i \in Responses(trace) :
        ~IsNotFound(trace[i].out) =>
            /\ \A j \in Requests(trace) : j < i
            /\ i < Len(trace)
            /\ IF trace[i].out.type = "return"
               THEN trace[i + 1].op = "event"
               ELSE trace[i + 1].op = "raise"

\* C2: a trigger rebuilt from serialize() issues the requests the original
\* would issue (method, connection, endpoint, data, headers, options) and
\* sleeps as long as the original would.
C2_RoundTripSameRequests ==
    restored =>
        /\ \A i \in Requests(trace) :
              trace[i].req = HookRun(GetAsyncHook(orig), orig)
        /\ \A i \in Sleeps(trace) : trace[i].secs = orig.poll_interval

\* C3: a run emits at most one event, and after the event it issues no
\* request, sleeps no more and emits nothing.
C3_AtMostOneEvent ==
    /\ Cardinality(Events(trace)) <= 1
    /\ \A i \in Events(trace) :
          \A j \in (i + 1)..Len(trace) :
              trace[j].op \notin {"request", "sleep", "event", "response"}

\* The run has ended after its event, having polled more than once.
C3_Witness ==
    /\ hpc = "returned"
    /\ Cardinality(Events(trace)) = 1
    /\ Cardinality(Requests(trace)) >= 2

\* C4: once the host has cancelled the run, while it awaited its request or
\* slept, the trigger emits no event: nothing follows the cancellation.
C4_NoEventAfterCancel ==
    \A i \in 1..Len(trace) :
        trace[i].op = "cancel" =>
            /\ \A j \in (i + 1)..Len(trace) : trace[j].op # "event"
            /\ hpc = "cancelled"

\* The run was cancelled while awaiting the request that followed a sleep.
C4_Witness ==
    /\ hpc = "cancelled"
    /\ Len(trace) >= 5
    /\ trace[Len(trace)].op = "cancel"
    /\ trace[Len(trace) - 1].op = "request"
    /\ trace[Len(trace) - 2].op = "sleep"

\* C5: ticks are sequential, one request each: every response answers the
\* request issued just before it and two requests are separated by a
\* response; after a "not found" the trigger sleeps poll_interval, emits no
\* event, and only then issues the next request.
C5_SequentialTicks ==
    /\ \A i, j \in Requests(trace) :
          i < j => \E k \in Responses(trace) : i < k /\ k < j
    /\ \A k \in Responses(trace) : k > 1 /\ trace[k - 1].op = "request"
    /\ hpc = "awaiting" => trace[Len(trace)].op = "request"
    /\ \A k \in Responses(trace) :
          IsNotFound(trace[k].out) =>
              /\ k < Len(trace)
              /\ trace[k + 1].op = "sleep"
              /\ trace[k + 1].secs = trig.poll_interval
              /\ \A j \in Requests(trace) : j > k => j > k + 1
              /\ \A j \in Events(trace) :
                    j > k => \E r \in Requests(trace) : k < r /\ r < j

\* A "not found" was answered by a sleep and then by the next request.
C5_Witness ==
    \E k \in Responses(trace) :
        /\ IsNotFound(trace[k].out)
        /\ k + 2 <= Len(trace)
        /\ trace[k + 1].op = "sleep"
        /\ trace[k + 2].op = "request"

\* C6: the trigger emits its success event in the tick of the first
\* response other than "not found".
C6_SuccessOnFirstOtherResponse ==
    \A k \in Responses(trace) :
        (/\ IsOtherResponse(trace[k].out)
         /\ \A i \in Responses(trace) : i < k => IsNotFound(trace[i].out))
        => (k < Len(trace) /\ trace[k + 1].op = "event")

\* ---------------------------------------------------------------- S3KeySensorAsync: claims

\* execute has run and execute_complete has not.
JustExecuted == kpc # "constructed" /\ lastEvent = NoEvent

\* C7: execute pokes exactly once, and a poke that returns true ends the task
\* in execute: it returns normally and defer is never called.
C7_PokeTrueNoDefer ==
    /\ kpc # "constructed" => pokes = 1
    /\ lastPoke = PokeReturns(TRUE) =>
          /\ kpc = "success"
          /\ raised = NoException
          /\ deferCalls = <<>>
          /\ newDefers = <<>>

\* execute ended the task on a true poke.
C7_Witness ==
    /\ lastPoke = PokeReturns(TRUE)
    /\ kpc = "success"
    /\ pokes = 1

\* C8: a poke that returns false makes execute call defer exactly once, with
\* the sensor's timeout (7 days by default), the resume method
\* "execute_complete" and an S3KeyTrigger carrying the task's bucket name, key
\* list, matching mode, connection, poke interval, soft_fail and whether a
\* predicate is set.
C8_PokeFalseDefersOnce ==
    (JustExecuted /\ lastPoke = PokeReturns(FALSE)) =>
        /\ kpc = "deferred"
        /\ raised = TaskDeferred
        /\ Len(deferCalls) = 1
        /\ newDefers = deferCalls
        /\ deferCalls[1].method_name = "execute_complete"
        /\ deferCalls[1].timeout.seconds \in 0..(SecondsPerDay - 1)
        /\ deferCalls[1].timeout.days * SecondsPerDay + deferCalls[1].timeout.seconds
              = sensor.timeout
        /\ sensor.timeout = DefaultTimeout =>
              deferCalls[1].timeout = [days |-> 7, seconds |-> 0]
        /\ deferCalls[1].trigger.bucket_name = sensor.bucket_name
        /\ deferCalls[1].trigger.bucket_key = sensor.bucket_key
        /\ deferCalls[1].trigger.wildcard_match = sensor.wildcard_match
        /\ deferCalls[1].trigger.use_regex = sensor.use_regex
        /\ deferCalls[1].trigger.aws_conn_id = sensor.aws_conn_id
        /\ deferCalls[1].trigger.poke_interval = sensor.poke_interval
        /\ deferCalls[1].trigger.soft_fail = sensor.soft_fail
        /\ deferCalls[1].trigger.should_check_fn = (sensor.check_fn # None)

\* execute deferred a task with the default timeout, two key patterns, regex
\* matching and a predicate.
C8_Witness ==
    /\ JustExecuted
    /\ lastPoke = PokeReturns(FALSE)
    /\ kpc = "deferred"
    /\ sensor.timeout = DefaultTimeout
    /\ Len(sensor.bucket_key) = 2
    /\ sensor.use_regex
    /\ sensor.check_fn # None

\* C9: when the poke of execute raises, a soft_fail task ends in a skip
\* (AirflowSkipException with the exception's message), any other task fails
\* with the original exception; defer is not called either way.
C9_PokeRaises ==
    (kpc # "constructed" /\ lastPoke.exc # NoException) =>
        /\ deferCalls = <<>>
        /\ newDefers = <<>>
        /\ IF sensor.soft_fail
           THEN /\ kpc = "skipped"
                /\ raised = Exc("AirflowSkipException", lastPoke.exc.msg)
           ELSE /\ kpc = "failed"
                /\ raised = lastPoke.exc

\* A soft_fail task was skipped with the message of the poke's exception.
C9_Witness ==
    /\ kpc = "skipped"
    /\ sensor.soft_fail
    /\ lastPoke.exc.type = "ClientError"
    /\ raised.msg = "403 Forbidden"

\* C10: on a "running" event execute_complete applies the configured
\* predicate to the event's files: if it holds the task finishes without
\* deferring, otherwise the task defers exactly once, with the timeout,
\* trigger configuration and resume method of the deferral made by execute.
C10_RunningEvent ==
    (lastEvent.status = "running" /\ sensor.check_fn # None) =>
        IF Call(sensor.check_fn, lastEvent.files)
        THEN /\ kpc = "success"
             /\ raised = NoException
             /\ newDefers = <<>>
        ELSE /\ kpc = "deferred"
             /\ raised = TaskDeferred
             /\ Len(newDefers) = 1
             /\ Len(deferCalls) >= 2
             /\ deferCalls[Len(deferCalls)] = newDefers[1]
             /\ newDefers[1] = deferCalls[1]

\* The task was deferred again, twice, by a predicate that looked at the files.
C10_Witness ==
    /\ lastEvent.status = "running"
    /\ sensor.check_fn = "all_size_positive"
    /\ kpc = "deferred"
    /\ Len(deferCalls) = 3

\* C11: on an "error" event execute_complete neither completes the task nor
\* defers: it raises AirflowSkipException with the event's message when the
\* event's soft_fail flag is set, AirflowException with that message otherwise.
C11_ErrorEvent ==
    lastEvent.status = "error" =>
        /\ newDefers = <<>>
        /\ kpc \notin {"success", "deferred"}
        /\ IF lastEvent.soft_fail
           THEN /\ kpc = "skipped"
                /\ raised = Exc("AirflowSkipException", lastEvent.message)
           ELSE /\ kpc = "failed"
                /\ raised = Exc("AirflowException", lastEvent.message)

\* An error event flagged soft_fail skipped a task that had been deferred.
C11_Witness ==
    /\ lastEvent.status = "error"
    /\ lastEvent.soft_fail
    /\ lastEvent.message = "mocked error"
    /\ kpc = "skipped"
    /\ Len(deferCalls) >= 1

\* C13: on a "success" event execute_complete returns None: the predicate is
\* not evaluated, defer is not called and nothing is raised, with or without
\* a predicate configured.
C13_SuccessEvent ==
    lastEvent.status = "success" =>
        /\ kpc = "success"
        /\ raised = NoException
        /\ newDefers = <<>>
        /\ newChecks = 0

\* A success event completed a task whose predicate would have failed.
C13_Witness ==
    /\ lastEvent.status = "success"
    /\ sensor.check_fn = "always_false"
    /\ kpc = "success"

\* C19: a sensor built with an empty list of key patterns is rejected at
\* construction, so no such sensor ever pokes or defers.
C19_EmptyKeysRejected ==
    sensor.bucket_key = <<>> =>
        /\ kpc = "constructed"
        /\ pokes = 0
        /\ deferCalls = <<>>

\* ---------------------------------------------------------------- S3KeySensorAsync with its trigger: claims

\* C12: for every error event a trigger delivers, the task's own soft_fail
\* decides: the task is skipped exactly when it was configured soft_fail, and
\* fails exactly when it was not; the message is the event's.
C12_TaskSoftFailDecides ==
    lastEvent.status = "error" =>
        /\ (kpc = "skipped") <=> sensor.soft_fail
        /\ (kpc = "failed") <=> ~sensor.soft_fail
        /\ raised.msg = lastEvent.message

\* A failed resolution in the trigger skipped a soft_fail task.
C12_Witness ==
    /\ lastEvent.status = "error"
    /\ krun.event = lastEvent
    /\ sensor.soft_fail
    /\ kpc = "skipped"

\* The task was deferred and its predicate is false on every listing.
AlwaysFalseDeferred == sensor.check_fn = "always_false" /\ Len(deferCalls) >= 1

\* C14 as stated: with a predicate false on every listing, a deferred task
\* ends only by the host-level timeout.
C14_OnlyTimeoutEnds ==
    (AlwaysFalseDeferred /\ kpc # "deferred") => kpc = "timed_out"

\* C14, amended: with a predicate false on every listing no event completes
\* the task: every running event leads to another deferral, and a deferred
\* task ends only by the host-level timeout or by an error event.
C14_NeverCompletesByEvent ==
    AlwaysFalseDeferred =>
        /\ kpc \in {"deferred", "timed_out", "failed", "skipped"}
        /\ lastEvent.status \in {"none", "running", "error"}
        /\ lastEvent.status = "running" =>
              /\ kpc \in {"deferred", "timed_out"}
              /\ Len(newDefers) = 1
              /\ Len(deferCalls) >= 2
        /\ kpc \in {"failed", "skipped"} => lastEvent.status = "error"

\* The task was deferred again after running events until the timeout ended it.
C14_Witness ==
    /\ AlwaysFalseDeferred
    /\ Len(deferCalls) = 3
    /\ lastEvent.status = "running"
    /\ kpc = "timed_out"

\* ---------------------------------------------------------------- S3KeysUnchangedSensorAsync: claims

\* C15: execute_complete of the unchanged-set sensor fails the task with an
\* AirflowException carrying the event's message when the event's status is
\* "error", whatever the task's soft_fail (never a skip); it returns normally
\* for "success"; and it calls defer for no event.
C15_UnchangedExecuteComplete ==
    uevent.status # "none" =>
        /\ Len(udefers) = 1
        /\ upc # "deferred"
        /\ upc # "skipped"
        /\ uevent.status = "error" =>
              upc = "failed" /\ uraised = Exc("AirflowException", uevent.message)
        /\ uevent.status = "success" => upc = "success" /\ uraised = NoException

\* A soft_fail task was resumed with an error event and failed.
C15_Witness ==
    /\ uevent = UnchangedEvent("error", "Mocked error")
    /\ usensor.soft_fail
    /\ upc = "failed"

\* C16: the trigger execute registers when it defers carries the history as
\* the immediate poke left it (previous objects, inactivity seconds,
\* last-activity time) together with the configured prefix, inactivity
\* period, minimum object count and allow_delete.
C16_TriggerCarriesPokedState ==
    udefers # <<>> =>
        LET t == udefers[1].trigger
            poke == upokes[Len(upokes)]
        IN
        /\ Len(upokes) = 1
        /\ t.previous_objects = poke.previous_objects
        /\ t.inactivity_seconds = poke.inactivity_seconds
        /\ t.last_activity_time = poke.last_activity_time
        /\ t.previous_objects = usensor.previous_objects
        /\ t.inactivity_seconds = usensor.inactivity_seconds
        /\ t.last_activity_time = usensor.last_activity_time
        /\ t.prefix = usensor.prefix
        /\ t.inactivity_period = usensor.inactivity_period
        /\ t.min_objects = usensor.min_objects
        /\ t.allow_delete = usensor.allow_delete

\* The poke saw an object and ten seconds of inactivity, and execute deferred.
C16_Witness ==
    /\ upc = "deferred"
    /\ Len(udefers) = 1
    /\ udefers[1].trigger.previous_objects = {"x"}
    /\ udefers[1].trigger.inactivity_seconds = 10
    /\ udefers[1].trigger.last_activity_time = At(0)

\* C18: constructing the sensor with a negative inactivity period raises a
\* ValueError at construction: no task exists, execute never runs, and no
\* trigger is created or deferred.
C18_NegativePeriodRejected ==
    usensor.inactivity_period < 0 =>
        /\ upc = "config_error"
        /\ uraised.type = "ValueError"
        /\ upokes = <<>>
        /\ udefers = <<>>
        /\ urun.pc = "none"

\* Construction with inactivity_period = -100 raised.
C18_Witness ==
    /\ usensor.inactivity_period = -100
    /\ upc = "config_error"
    /\ uraised.type = "ValueError"

\* The trigger's last poll listed the same objects as the poll before it.
ConstantTick == urun.kind = "nochange"

\* C20: a poll of the unchanged-set trigger that lists the same objects adds
\* one poll interval to the accumulated inactivity, and the trigger emits
\* success on that poll exactly when the accumulated inactivity has reached
\* the task's inactivity period and the listing holds at least the task's
\* min_objects; so success comes on the first such poll.
C20_ConstantSetSucceeds ==
    ConstantTick =>
        /\ urun.inactivity_seconds = urun.before + urun.poll_interval
        /\ (urun.event.status = "success") <=>
              /\ urun.inactivity_seconds >= usensor.inactivity_period
              /\ Cardinality(urun.previous_objects) >= usensor.min_objects
        /\ urun.event.status # "none" => urun.pc # "polling"

\* Window 100 s, interval 10 s, min_objects 1: {x} listed at tick 0 and on
\* every tick through tick 10, success on tick 10 with 100 s accumulated.
C20_Witness ==
    /\ usensor.inactivity_period = 100
    /\ usensor.min_objects = 1
    /\ udefers # <<>>
    /\ udefers[1].trigger.previous_objects = {}
    /\ udefers[1].trigger.inactivity_seconds = 0
    /\ urun.poll_interval = 10
    /\ urun.polls = 11
    /\ urun.previous_objects = {"x"}
    /\ urun.last_activity_time = At(1)
    /\ urun.inactivity_seconds = 100
    /\ urun.before = 90
    /\ urun.event.status = "success"

\* ---------------------------------------------------------------- S3KeysUnchangedTrigger: claims

\* The trigger's last poll listed a strict superset of the previous set.
GrowthTick == urun.polls > 0 /\ urun.was \subseteq urun.listed /\ urun.was # urun.listed

\* C21: a poll whose listing is a strict superset of the previous set resets
\* the accumulated inactivity to 0 and makes the listing the previous set;
\* and the trigger has never emitted success with an accumulated inactivity
\* below the task's inactivity period.
C21_GrowthResets ==
    /\ GrowthTick =>
          /\ urun.inactivity_seconds = 0
          /\ urun.previous_objects = urun.listed
    /\ urun.event.status = "success" =>
          urun.inactivity_seconds >= usensor.inactivity_period
    /\ uevent.status = "success" /\ urun.pc # "none" =>
          urun.inactivity_seconds >= usensor.inactivity_period

\* After some inactivity the listing grew from {x} to {x, y}: the run polls
\* on, its inactivity back at 0.
C21_Witness ==
    /\ GrowthTick
    /\ urun.was = {"x"}
    /\ urun.listed = {"x", "y"}
    /\ urun.before >= 20
    /\ urun.inactivity_seconds = 0
    /\ urun.pc = "polling"
    /\ usensor.inactivity_period = 100

\* The trigger's last poll missed an object of the previous set.
ShrinkTick == urun.polls > 0 /\ urun.was \ urun.listed # {}

\* C22: when the task disallows deletions, a poll that misses an object of
\* the previous set emits an error event on that poll, whatever the history,
\* and the task resumed with it fails: no skip, no success.
C22_DeletionIsHardError ==
    (ShrinkTick /\ ~usensor.allow_delete) =>
        /\ urun.event.status = "error"
        /\ urun.pc \in {"fired", "cancelled"}
        /\ upc \in {"deferred", "failed", "timed_out"}
        /\ uevent.status # "none" =>
              /\ uevent = urun.event
              /\ upc = "failed"
              /\ uraised = Exc("AirflowException", uevent.message)

\* After several polls and some inactivity an object disappeared, and the
\* soft_fail task failed.
C22_Witness ==
    /\ ShrinkTick
    /\ ~usensor.allow_delete
    /\ usensor.soft_fail
    /\ urun.polls >= 3
    /\ urun.before > 0
    /\ uevent.status = "error"
    /\ upc = "failed"

\* ---------------------------------------------------------------- S3KeyTrigger: claims

\* Every key pattern of the task resolved on the trigger's last poll.
AllKeysResolved ==
    /\ krun.polls > 0
    /\ krun.last.error = ""
    /\ krun.last.found = 1..Len(sensor.bucket_key)

\* C23: the existence trigger emits success only on a poll where every
\* configured key pattern resolves; while some pattern does not resolve it
\* emits no success, however many polls pass.
C23_SuccessNeedsAllKeys ==
    /\ krun.event.status = "success" => AllKeysResolved
    /\ (krun.polls > 0 /\ ~AllKeysResolved) => krun.event.status # "success"
    /\ (lastEvent.status = "success" /\ krun.gen > 0) => AllKeysResolved

\* Keys ["a", "b"]: two polls without both keys, success on the third.
C23_Witness ==
    /\ sensor.bucket_key = <<"a", "b">>
    /\ krun.polls = 3
    /\ krun.last.found = {1, 2}
    /\ krun.event.status = "success"

\* Resolving the key patterns failed on the trigger's last poll.
ResolutionFailed == krun.polls > 0 /\ krun.last.error # ""

\* C24: when resolving the key patterns fails on a poll, the existence
\* trigger emits an error event on that poll and stops: no retry, no further
\* poll; the task resumed with it ends skipped or failed and does not defer
\* again.
C24_ResolutionFailureStops ==
    /\ ResolutionFailed =>
          /\ krun.event.status = "error"
          /\ krun.event.message = krun.last.error
          /\ krun.pc \in {"fired", "cancelled"}
    /\ krun.event.status = "error" => ResolutionFailed
    /\ lastEvent.status = "error" =>
          /\ lastEvent = krun.event
          /\ kpc \in {"skipped", "failed"}
          /\ newDefers = <<>>
          /\ krun.gen = Len(deferCalls)

\* The second poll of a run failed and the task, resumed, failed.
C24_Witness ==
    /\ ResolutionFailed
    /\ krun.polls = 2
    /\ lastEvent = krun.event
    /\ kpc = "failed"

\* ---------------------------------------------------------------- S3KeySensorAsync: bucket_key

\* The list the constructor makes of its bucket_key argument: a string alone
\* in a list, a list as given.
Normalized == IF IsStr(kargs) THEN <<kargs.str>> ELSE kargs.list

\* C28: the constructor turns a single string into a one-element list and
\* keeps a list as given; after templating, execute, execute_complete and any
\* re-deferral bucket_key is still that list, and every trigger received it.
C28_BucketKeyIsTheList ==
    /\ sensor.bucket_key \in {Normalized, RenderList(Normalized)}
    /\ Len(sensor.bucket_key) = IF IsStr(kargs) THEN 1 ELSE Len(kargs.list)
    /\ \A i \in 1..Len(deferCalls) : deferCalls[i].trigger.bucket_key = sensor.bucket_key

\* A templated string was passed, rendered, and the task deferred three times.
C28_Witness ==
    /\ kargs = Str(TemplatedKey)
    /\ sensor.bucket_key = <<"s3://bucket/key">>
    /\ Len(deferCalls) = 3
    /\ lastEvent.status = "running"

\* ---------------------------------------------------------------- S3KeySensorAsync.execute: the suspension signal

\* C30: in execute the TaskDeferred raised by defer is neither turned into a
\* skip nor swallowed: a false poke leaves the task deferred even with
\* soft_fail set, and execute ends in a skip only when the poke itself raised
\* on a soft_fail task.
C30_DeferralNotSoftFailed ==
    JustExecuted =>
        /\ (lastPoke.exc = NoException /\ ~lastPoke.returns) =>
              /\ raised = TaskDeferred
              /\ kpc = "deferred"
              /\ Len(deferCalls) = 1
        /\ kpc = "skipped" => (lastPoke.exc # NoException /\ sensor.soft_fail)
        /\ raised = TaskDeferred <=> deferCalls # <<>>

\* A soft_fail task poked false and was deferred.
C30_Witness ==
    /\ JustExecuted
    /\ sensor.soft_fail
    /\ lastPoke = PokeReturns(FALSE)
    /\ kpc = "deferred"
    /\ raised = TaskDeferred

\* ---------------------------------------------------------------- HttpTrigger.run: how it ends

BqJustExecuted == bpc \notin {"idle", "constructed"} /\ bevent = NoBqEvent

\* The job execute held when it inspected it.
InspectedJob ==
    LET job == Job(GenerateJobId(bop.job_id), benv.state, benv.done) IN
    IF benv.insert = "Conflict" THEN Begin(job) ELSE job

\* C25: each asynchronous BigQuery operator submits its job in execute; when
\* the job it then holds is still running it defers, once, with its own
\* trigger class; when the job is already finished it completes in execute
\* and never calls defer.
C25_DefersWhileRunning ==
    (BqJustExecuted /\ braised.type # "AirflowException") =>
        /\ Cardinality(CallsOf(bcalls, "insert_job")) = 1
        /\ IF Running(InspectedJob)
           THEN /\ bpc = "deferred"
                /\ Len(bdefers) = 1
                /\ bdefers[1].trigger.type = TriggerOf(bop.kind)
           ELSE /\ bpc = "success"
                /\ braised = NoBqException
                /\ bdefers = <<>>

\* A value-check operator found its job finished and completed in execute.
C25_Witness ==
    /\ BqJustExecuted
    /\ bop.kind = "value_check"
    /\ ~Running(InspectedJob)
    /\ bpc = "success"
    /\ CallsOf(bcalls, "super.execute") # {}

\* C26: when insert_job conflicts with an existing job, the insert-job
\* operator fetches that job exactly once, by the generated job id; a job
\* whose state is in reattach_states is begun again once and the operator
\* defers; otherwise execute raises an AirflowException naming the job id and
\* the state, and does not defer.
C26_ConflictReattachOrFail ==
    (BqJustExecuted /\ benv.insert = "Conflict") =>
        /\ Cardinality(CallsOf(bcalls, "get_job")) = 1
        /\ \A i \in CallsOf(bcalls, "get_job") :
              /\ bcalls[i].job_id = GenerateJobId(bop.job_id)
              /\ bcalls[i].location = bop.location
              /\ bcalls[i].project_id = bop.project_id
        /\ IF benv.state \in bop.reattach_states
           THEN /\ Cardinality(CallsOf(bcalls, "_begin")) = 1
                /\ bpc = "deferred"
                /\ Len(bdefers) = 1
           ELSE /\ CallsOf(bcalls, "_begin") = {}
                /\ bpc = "failed"
                /\ braised.type = "AirflowException"
                /\ braised.job_id = GenerateJobId(bop.job_id)
                /\ braised.state = benv.state
                /\ bdefers = <<>>

\* An existing job in state DONE, reattach_states {"PENDING"}: execute failed.
C26_Witness ==
    /\ BqJustExecuted
    /\ benv = BqEnv("Conflict", "DONE", TRUE)
    /\ bop.reattach_states = {"PENDING"}
    /\ bpc = "failed"
    /\ braised.job_id = "123456_hash"

\* C27: execute_complete of every asynchronous BigQuery operator raises an
\* AirflowException on an event with status "error", so an error event never
\* completes the task; a success event completes the value-check and the
\* insert-job operator normally.
C27_ErrorEventFails ==
    /\ bevent.status = "error" =>
          /\ bpc = "failed"
          /\ braised.type = "AirflowException"
          /\ braised.msg = bevent.message
    /\ (bevent.status = "success" /\ bop.kind \in {"value_check", "insert_job"}) =>
          /\ bpc = "success"
          /\ braised = NoBqException

\* A get-data operator was resumed with an error event and failed.
C27_Witness ==
    /\ bevent.status = "error"
    /\ bop.kind = "get_data"
    /\ bpc = "failed"

\* ---------------------------------------------------------------- S3KeySensorAsync: predicate and frame claims

\* C31: in the task composed with the triggers it registers, every trigger's
\* should_check_fn is true exactly when the task's check_fn is set, a running
\* event is emitted and delivered only when the task has a predicate, and
\* execute_complete never calls an absent predicate.
C31_RunningOnlyWithPredicate ==
    /\ sensor.should_check_fn <=> sensor.check_fn # None
    /\ \A i \in DOMAIN deferCalls :
          deferCalls[i].trigger.should_check_fn <=> sensor.check_fn # None
    /\ krun.event.status = "running" => sensor.check_fn # None
    /\ lastEvent.status = "running" =>
          /\ sensor.check_fn # None
          /\ newChecks = 1
    /\ raised.type # "TypeError"

\* A registered trigger delivered a running event to a task with a predicate,
\* which evaluated it and completed.
C31_Witness ==
    /\ sensor.check_fn # None
    /\ lastEvent.status = "running"
    /\ krun.event = lastEvent
    /\ deferCalls[1].trigger.should_check_fn
    /\ newChecks = 1
    /\ kpc = "success"

\* C32: for every check_fn passed to S3KeySizeSensorAsync, the task's
\* predicate is unset, every trigger it defers has should_check_fn false, and
\* neither execute nor execute_complete evaluates a predicate.
C32_SizeSensorDropsCheckFn ==
    /\ sensor.check_fn = None
    /\ ~sensor.should_check_fn
    /\ \A i \in DOMAIN deferCalls : ~deferCalls[i].trigger.should_check_fn
    /\ newChecks = 0
    /\ checks = 0

\* A size sensor built with a predicate deferred, was resumed with a success
\* event and completed without a single evaluation of it.
C32_Witness ==
    /\ sensor.check_fn_user = "always_false"
    /\ Len(deferCalls) = 1
    /\ ~deferCalls[1].trigger.should_check_fn
    /\ lastEvent.status = "success"
    /\ kpc = "success"
    /\ checks = 0

UnchangedJustExecuted == upc \notin {"constructed", "config_error"} /\ uevent = NoUnchangedEvent

\* C34: execute of the unchanged-set sensor pokes exactly once and defers
\* exactly once if and only if that poke returned false; an exception of the
\* poke leaves execute unchanged, whatever soft_fail is: the task fails, is
\* never skipped, and no trigger is deferred.
C34_OnePokeDeferIffFalse ==
    /\ Len(upokes) <= 1
    /\ Len(udefers) <= 1
    /\ UnchangedJustExecuted =>
          LET poke == upokes[Len(upokes)] IN
          /\ Len(upokes) = 1
          /\ IF poke.exc # NoException
             THEN /\ uraised = poke.exc
                  /\ upc = "failed"
                  /\ udefers = <<>>
             ELSE /\ Len(udefers) = 1 <=> ~poke.returns
                  /\ ~poke.returns => upc = "deferred" /\ uraised = TaskDeferred
                  /\ poke.returns => upc = "success" /\ uraised = NoException

\* The poke of a soft_fail task raised: the task failed with the poke's
\* exception and registered no trigger.
C34_Witness ==
    /\ UnchangedJustExecuted
    /\ usensor.soft_fail
    /\ Len(upokes) = 1
    /\ upokes[1].exc = Exc("ClientError", "403 Forbidden")
    /\ uraised = upokes[1].exc
    /\ upc = "failed"
    /\ udefers = <<>>

\* C35: every step of execute or execute_complete leaves the task's
\* configuration as it was (bucket name, key list, matching mode, connection,
\* poke interval, soft_fail, predicate, timeout), and after it every deferral
\* made so far, the n-th like the first, has the trigger and the timeout that
\* _defer builds from that configuration.
C35_ConfigurationFrame ==
    [][(pokes' # pokes \/ kpc # "constructed") =>
          /\ sensor' = sensor
          /\ \A i \in DOMAIN deferCalls' :
                /\ deferCalls'[i] = deferCalls'[1]
                /\ deferCalls'[i].trigger = S3KeyTrigger(sensor)
                /\ deferCalls'[i].timeout = timedelta(sensor.timeout)
          /\ \A i \in DOMAIN deferCalls : deferCalls'[i] = deferCalls[i]]_vars

\* A task with a non-default timeout, soft_fail and a predicate looking at the
\* files was deferred by execute and twice more by execute_complete.
C35_Witness ==
    /\ Len(deferCalls) = 3
    /\ kpc = "deferred"
    /\ lastEvent.status = "running"
    /\ sensor.check_fn = "all_size_positive"
    /\ sensor.soft_fail
    /\ sensor.timeout # DefaultTimeout
    /\ deferCalls[3] = deferCalls[1]
====
